---- MODULE Spec2Model ----
(***************************************************************************)
(* Model of src/src/main.rs: the streaming changeset parser               *)
(* (parse_changeset_element, apply_changeset_tag, parse_changeset_body,   *)
(* parse_and_write_changesets), the columnar BatchBuilders and main.      *)
(*                                                                         *)
(* The tokenizer (quick_xml::Reader) is the environment: every read of    *)
(* the code is one step in which the next event of the input is chosen.   *)
(* Stream positions are counted in events instead of bytes.               *)
(***************************************************************************)
EXTENDS Integers, Sequences, FiniteSets, TLC

\* ---------------------------------------------------------------- bounds
MaxEvents == 5      \* events in the input before end-of-input
MaxDepth == 3       \* open elements at any time
MaxBatchSize == 2   \* largest --batch-size tried (0 is tried too)
MaxAttrs == 2       \* attributes of an element in the decoding specification

\* ------------------------------------------------------- Option / Result
None == <<>>
Some(v) == <<v>>
Ok(v) == [ok |-> TRUE, val |-> v]
Err(e) == [ok |-> FALSE, err |-> e]

\* ------------------------------------------------------------ attributes
\* An attribute as the tokenizer hands it over: key and raw (escaped) value.
\* MalformedKey stands for an attribute the attribute iterator rejects.
MalformedKey == "<malformed>"
Attr(k, r) == [key |-> k, raw |-> r]

RecognizedKeys ==
  {"id", "created_at", "closed_at", "open", "user", "uid", "min_lat",
   "min_lon", "max_lat", "max_lon", "num_changes", "comments_count"}

\* attr.unescape_value(): resolves entity references, fails on an unknown one
unescape_value(raw) ==
  CASE raw = "&lt;" -> Ok("<")
    [] raw = "&bogus;" -> Err("escape")
    [] OTHER -> Ok(raw)

\* str::parse::<i64>(): optional sign, decimal digits, nothing else
parse_i64(s) ==
  CASE s = "0" -> Ok(0)
    [] s = "1" -> Ok(1)
    [] s = "2" -> Ok(2)
    [] s = "3" -> Ok(3)
    [] s = "+7" -> Ok(7)
    [] s = "-1" -> Ok(0 - 1)
    [] OTHER -> Err("parse_int")

\* str::parse::<u32>(): as parse_i64, but a negative number is an error
parse_u32(s) ==
  CASE s = "0" -> Ok(0)
    [] s = "1" -> Ok(1)
    [] s = "2" -> Ok(2)
    [] s = "3" -> Ok(3)
    [] s = "+7" -> Ok(7)
    [] OTHER -> Err("parse_int")

\* str::parse::<f64>(); the value is kept in tenths
parse_f64(s) ==
  CASE s = "0" -> Ok(0)
    [] s = "1" -> Ok(10)
    [] s = "2" -> Ok(20)
    [] s = "3" -> Ok(30)
    [] s = "+7" -> Ok(70)
    [] s = "-1" -> Ok(0 - 10)
    [] s = "1.5" -> Ok(15)
    [] OTHER -> Err("parse_float")

\* parse_timestamp: RFC 3339 date-time with offset -> milliseconds since epoch
parse_timestamp(s) ==
  CASE s = "1970-01-01T00:00:00Z" -> Ok(0)
    [] s = "1970-01-01T01:00:00+01:00" -> Ok(0)
    [] s = "1970-01-01T00:00:01.5Z" -> Ok(1500)
    [] OTHER -> Err("timestamp")

\* value == "true"
parse_bool_any_case(s) == s \in {"true", "TRUE"}
parse_bool(s) == s = "true"

\* ------------------------------------------------------------- Changeset
ChangesetDefault ==
  [id |-> 0, created_at |-> None, closed_at |-> None, open |-> FALSE,
   user |-> None, uid |-> None, min_lat |-> None, min_lon |-> None,
   max_lat |-> None, max_lon |-> None, num_changes |-> 0,
   comments_count |-> 0, description |-> None]

\* One arm of the match in parse_changeset_element
SetField(cs, k, r, f) ==
  IF r.ok THEN Ok([cs EXCEPT ![f] = IF k = "opt" THEN Some(r.val) ELSE r.val])
  ELSE r

match_key(cs, key, value) ==
  CASE key = "id" -> SetField(cs, "req", parse_i64(value), "id")
    [] key = "created_at" -> SetField(cs, "opt", parse_timestamp(value), "created_at")
    [] key = "closed_at" -> SetField(cs, "opt", parse_timestamp(value), "closed_at")
    [] key = "open" -> Ok([cs EXCEPT !.open = parse_bool(value)])
    [] key = "user" -> Ok([cs EXCEPT !.user = Some(value)])
    [] key = "uid" -> SetField(cs, "opt", parse_i64(value), "uid")
    [] key = "min_lat" -> SetField(cs, "opt", parse_f64(value), "min_lat")
    [] key = "min_lon" -> SetField(cs, "opt", parse_f64(value), "min_lon")
    [] key = "max_lat" -> SetField(cs, "opt", parse_f64(value), "max_lat")
    [] key = "max_lon" -> SetField(cs, "opt", parse_f64(value), "max_lon")
    [] key = "num_changes" -> SetField(cs, "req", parse_u32(value), "num_changes")
    [] key = "comments_count" -> SetField(cs, "req", parse_u32(value), "comments_count")
    [] OTHER -> Ok(cs)

\* e.attributes() yields an error for a malformed attribute and for a key
\* that an earlier attribute of the same element already used
AttrError(attrs, i) ==
  \/ attrs[i].key = MalformedKey
  \/ \E j \in 1..(i - 1) : attrs[j].key = attrs[i].key

RECURSIVE parse_changeset_attrs(_, _, _)
parse_changeset_attrs(attrs, i, cs) ==
  IF i > Len(attrs) THEN Ok(cs)
  ELSE IF AttrError(attrs, i) THEN Err("attr")
  ELSE LET value == unescape_value(attrs[i].raw) IN
       IF ~value.ok THEN value
       ELSE LET r == match_key(cs, attrs[i].key, value.val) IN
            IF r.ok THEN parse_changeset_attrs(attrs, i + 1, r.val) ELSE r

parse_changeset_element(attrs) == parse_changeset_attrs(attrs, 1, ChangesetDefault)

\* The loop of apply_changeset_tag: the last k and the last v of the element
RECURSIVE tag_attrs(_, _, _, _)
tag_attrs(attrs, i, key, value) ==
  IF i > Len(attrs) THEN Ok([key |-> key, value |-> value])
  ELSE IF AttrError(attrs, i) THEN Err("attr")
  ELSE IF attrs[i].key \in {"k", "v"}
       THEN LET u == unescape_value(attrs[i].raw) IN
            IF ~u.ok THEN u
            ELSE IF attrs[i].key = "k"
                 THEN tag_attrs(attrs, i + 1, Some(u.val), value)
                 ELSE tag_attrs(attrs, i + 1, key, Some(u.val))
       ELSE tag_attrs(attrs, i + 1, key, value)

apply_changeset_tag_first_wins(attrs, cs) ==
  LET kv == tag_attrs(attrs, 1, None, None) IN
  IF ~kv.ok THEN kv
  ELSE IF kv.val.key # None /\ kv.val.value # None /\ kv.val.key[1] = "comment"
          /\ cs.description = None
       THEN Ok([cs EXCEPT !.description = Some(kv.val.value[1])])
       ELSE Ok(cs)

apply_changeset_tag(attrs, cs) ==
  LET kv == tag_attrs(attrs, 1, None, None) IN
  IF ~kv.ok THEN kv
  ELSE IF kv.val.key # None /\ kv.val.value # None /\ kv.val.key[1] = "comment"
       THEN Ok([cs EXCEPT !.description = Some(kv.val.value[1])])
       ELSE Ok(cs)

\* --------------------------------------------------------- BatchBuilders
\* A slot of an Arrow array: validity bit and value (the default under a null)
Valid(v) == [valid |-> TRUE, v |-> v]
Null(d) == [valid |-> FALSE, v |-> d]
OptSlot_sentinel(o, d) == IF o # None THEN Valid(o[1]) ELSE Valid(d)
OptSlot(o, d) == IF o # None THEN Valid(o[1]) ELSE Null(d)

Columns ==
  {"id", "created_at", "closed_at", "open", "user", "uid", "min_lat",
   "min_lon", "max_lat", "max_lon", "num_changes", "comments_count",
   "description"}

with_capacity ==
  [id |-> <<>>, created_at |-> <<>>, closed_at |-> <<>>, open |-> <<>>,
   user |-> <<>>, uid |-> <<>>, min_lat |-> <<>>, min_lon |-> <<>>,
   max_lat |-> <<>>, max_lon |-> <<>>, num_changes |-> <<>>,
   comments_count |-> <<>>, description |-> <<>>, len |-> 0]

append(b, cs) ==
  [id |-> Append(b.id, Valid(cs.id)),
   created_at |-> Append(b.created_at, OptSlot(cs.created_at, 0)),
   closed_at |-> Append(b.closed_at, OptSlot(cs.closed_at, 0)),
   open |-> Append(b.open, Valid(cs.open)),
   user |-> Append(b.user, OptSlot(cs.user, "")),
   uid |-> Append(b.uid, OptSlot(cs.uid, 0)),
   min_lat |-> Append(b.min_lat, OptSlot(cs.min_lat, 0)),
   min_lon |-> Append(b.min_lon, OptSlot(cs.min_lon, 0)),
   max_lat |-> Append(b.max_lat, OptSlot(cs.max_lat, 0)),
   max_lon |-> Append(b.max_lon, OptSlot(cs.max_lon, 0)),
   num_changes |-> Append(b.num_changes, Valid(cs.num_changes)),
   comments_count |-> Append(b.comments_count, Valid(cs.comments_count)),
   description |-> Append(b.description, OptSlot(cs.description, "")),
   len |-> b.len + 1]

is_empty(b) == b.len = 0

finish_batch_keep(b) == [batch |-> [c \in Columns |-> b[c]], builders |-> b]

\* finish_batch: every column builder is drained into the batch and starts
\* over empty, and len is reset
finish_batch(b) ==
  [batch |-> [c \in Columns |-> b[c]],
   builders |-> [[c \in Columns \cup {"len"} |-> <<>>] EXCEPT !.len = 0]]

num_rows(batch) == Len(batch.id)
Row(batch, i) == [c \in Columns |-> batch[c][i]]

\* ---------------------------------------------------------------- events
Names == {"changeset", "tag", "discussion"}

Start(n, a) == [type |-> "Start", name |-> n, attrs |-> a]
Empty(n, a) == [type |-> "Empty", name |-> n, attrs |-> a]
End(n) == [type |-> "End", name |-> n, attrs |-> <<>>]
Text == [type |-> "Text", name |-> "", attrs |-> <<>>]
Eof == [type |-> "Eof", name |-> "", attrs |-> <<>>]
\* Err(quick_xml::Error): "syntax" for ill-formed input, "io" for a failure
\* of the byte source
ErrEvent(k) == [type |-> "Err", name |-> k, attrs |-> <<>>]

\* Attribute lists of the changeset elements of the input
ElemPlain == <<Attr("id", "1")>>
ElemFull ==
  <<Attr("id", "2"), Attr("created_at", "1970-01-01T01:00:00+01:00"),
    Attr("open", "true"), Attr("user", "&lt;"), Attr("num_changes", "0"),
    Attr("version", "abc")>>
ElemBadTimestamp == <<Attr("id", "3"), Attr("created_at", "not-a-date")>>
ChangesetAttrs == {ElemPlain, ElemFull, ElemBadTimestamp}

\* Attribute lists of the tag elements of the input
TagAttrs ==
  {<<Attr("k", "comment"), Attr("v", "fix road")>>,
   <<Attr("v", "final edit"), Attr("k", "comment")>>,
   <<Attr("k", "source"), Attr("v", "fix road")>>,
   <<Attr("k", "comment")>>,
   <<Attr("k", "comment"), Attr("v", "&bogus;")>>}

AttrsOf(n) ==
  CASE n = "changeset" -> ChangesetAttrs
    [] n = "tag" -> TagAttrs
    [] OTHER -> {<<>>}

Events ==
  {Start(n, a) : <<n, a>> \in UNION {{n} \X AttrsOf(n) : n \in Names}}
  \cup {Empty(n, a) : <<n, a>> \in UNION {{n} \X AttrsOf(n) : n \in Names}}
  \cup {End(n) : n \in Names}
  \cup {Text, Eof, ErrEvent("syntax"), ErrEvent("io")}

\* ----------------------------------------------------------------- state
VARIABLES
  pc,                 \* "setup", "top", "body", "skip", "returned", "exit";
                      \* decoding: "decode", "decoded", "appended"
  continue_on_error,  \* Args.continue_on_error
  batch_size,         \* Args.batch_size
  position,           \* xml_reader.buffer_position(), in events
  opened,             \* the tokenizer's stack of open element names
  changeset,          \* the record under assembly
  end_name, depth,    \* read_to_end_into: the name skipped to, nesting count
  builders,           \* BatchBuilders
  count, batch_num, last_changeset_id,
  written,            \* the batches writer.write accepted, in order
  log,                \* the "Writing batch N with R rows (total: C)" lines
  closes,             \* calls of writer.close
  report,             \* the "XML PARSE ERROR" report, None if none printed
  result,             \* what parse_and_write_changesets returned
  main_result,        \* what main returned
  encountered,        \* the error met while reading or decoding, if any
  assembled,          \* history: the records handed to process_changeset
  wf, invalid, g_depth, g_good, \* history: the input read so far, see Observe
  g_desc, g_inner,    \* history: the open record's children, see ObserveBody
  elem, decoded       \* decoding specification: an element and its result

driver_vars == <<builders, count, batch_num, last_changeset_id, written, log, assembled>>
reader_vars == <<position, opened, wf, invalid, g_depth, g_good, g_desc, g_inner>>
skip_vars == <<end_name, depth>>
args_vars == <<continue_on_error, batch_size>>
decode_vars == <<elem, decoded>>
vars ==
  <<pc, continue_on_error, batch_size, position, opened, changeset, end_name,
    depth, builders, count, batch_num, last_changeset_id, written, log, closes,
    report, result, main_result, encountered, assembled, wf, invalid, g_depth,
    g_good, g_desc, g_inner, elem, decoded>>

effective_batch_size == IF batch_size > 1 THEN batch_size ELSE 1

\* builders.len() >= effective_batch_size
is_full_gt(b) == b.len > effective_batch_size
is_full(b) == b.len >= effective_batch_size

InitRun ==
  /\ position = 0
  /\ opened = <<>>
  /\ changeset = ChangesetDefault
  /\ end_name = ""
  /\ depth = 0
  /\ builders = with_capacity
  /\ count = 0
  /\ batch_num = 0
  /\ last_changeset_id = 0
  /\ written = <<>>
  /\ log = <<>>
  /\ closes = 0
  /\ report = None
  /\ result = None
  /\ main_result = "none"
  /\ encountered = "none"
  /\ assembled = <<>>
  /\ wf = 0
  /\ invalid = FALSE
  /\ g_depth = 0
  /\ g_good = TRUE
  /\ g_desc = None
  /\ g_inner = {}
  /\ decoded = Err("none")

Init ==
  /\ pc = "setup"
  /\ continue_on_error \in BOOLEAN
  /\ batch_size \in 0..MaxBatchSize
  /\ elem = <<>>
  /\ InitRun

\* ------------------------------------------------------------- tokenizer
\* The events the input may continue with: at most MaxEvents events before
\* end-of-input, at most MaxDepth open elements
Offered ==
  IF position >= MaxEvents THEN {Eof}
  ELSE {ev \in Events : ev.type = "Start" => Len(opened) < MaxDepth}

\* An end tag with no open element is an error of the tokenizer
\* (Config::allow_unmatched_ends is left false); names of end tags are not
\* compared with the open element (check_end_names = false)
Delivered(ev) ==
  IF ev.type = "End" /\ opened = <<>> THEN ErrEvent("syntax") ELSE ev

\* History of the input: wf counts the well-formed changeset records outside
\* any other record that were read completely; invalid is set once the input
\* read so far has a tokenizer error or a malformed record: one whose
\* attributes or direct tag children do not decode, one with an end tag
\* inside that does not match its start tag, or one the input ends in.
\* g_depth is the depth of the open record (0: none), g_good whether its
\* attributes and its direct tag children decoded so far.
DirectTag(ev) == g_depth # 0 /\ ev.name = "tag" /\ Len(opened) = g_depth
TagDecodes(ev) == apply_changeset_tag(ev.attrs, ChangesetDefault).ok
RecordDecodes(ev) == parse_changeset_element(ev.attrs).ok

Observe(ev) ==
  CASE ev.type = "Start" /\ g_depth = 0 /\ ev.name = "changeset" ->
         /\ g_depth' = Len(opened) + 1
         /\ g_good' = RecordDecodes(ev)
         /\ invalid' = (invalid \/ ~RecordDecodes(ev))
         /\ wf' = wf
    [] ev.type = "Empty" /\ g_depth = 0 /\ ev.name = "changeset" ->
         /\ wf' = IF RecordDecodes(ev) THEN wf + 1 ELSE wf
         /\ invalid' = (invalid \/ ~RecordDecodes(ev))
         /\ UNCHANGED <<g_depth, g_good>>
    [] ev.type \in {"Start", "Empty"} /\ DirectTag(ev) ->
         /\ g_good' = (g_good /\ TagDecodes(ev))
         /\ invalid' = (invalid \/ ~TagDecodes(ev))
         /\ UNCHANGED <<g_depth, wf>>
    [] ev.type = "End" ->
         LET closes_record == g_depth # 0 /\ Len(opened) = g_depth
             matches == ev.name = opened[Len(opened)]
         IN /\ invalid' = (invalid \/ (g_depth # 0 /\ ~matches))
            /\ g_depth' = IF closes_record THEN 0 ELSE g_depth
            /\ g_good' = IF closes_record THEN TRUE ELSE g_good
            /\ wf' = IF closes_record /\ matches /\ g_good THEN wf + 1 ELSE wf
    [] ev.type = "Err" ->
         /\ invalid' = TRUE
         /\ UNCHANGED <<g_depth, g_good, wf>>
    [] ev.type = "Eof" ->
         /\ invalid' = (invalid \/ g_depth # 0)
         /\ UNCHANGED <<g_depth, g_good, wf>>
    [] OTHER -> UNCHANGED <<g_depth, g_good, wf, invalid>>

\* The comment a tag element carries: the value of its v attribute when its
\* k attribute is "comment", None otherwise
CommentOf(attrs) ==
  IF /\ \E i \in 1..Len(attrs) : attrs[i].key = "k" /\ attrs[i].raw = "comment"
     /\ \E j \in 1..Len(attrs) : attrs[j].key = "v"
  THEN LET j == CHOOSE j \in 1..Len(attrs) : attrs[j].key = "v"
       IN Some(unescape_value(attrs[j].raw).val)
  ELSE None

\* History of the open record's children, by the nesting of the elements:
\* g_desc is the comment of the last tag element that is a direct child of
\* the open record and carries one (None outside a record); g_inner tells
\* whether the last record opened had inside it an element named changeset
\* ("changeset") and a tag element carrying a comment below one of its
\* children ("tag"). Both are dropped once the input is invalid.
ObserveBody(ev) ==
  LET opens == ev.type = "Start" /\ g_depth = 0 /\ ev.name = "changeset"
      ends == ev.type = "End" /\ g_depth # 0 /\ Len(opened) = g_depth
      element == ev.type \in {"Start", "Empty"} /\ g_depth # 0
      comment == IF element /\ ev.name = "tag" /\ TagDecodes(ev)
                 THEN CommentOf(ev.attrs) ELSE None
  IN /\ g_desc' = CASE invalid' \/ opens \/ ends -> None
                     [] DirectTag(ev) /\ comment # None -> comment
                     [] OTHER -> g_desc
     /\ g_inner' =
          CASE invalid' \/ opens -> {}
            [] element /\ ev.name = "changeset" -> g_inner \cup {"changeset"}
            [] element /\ Len(opened) > g_depth /\ comment # None ->
                 g_inner \cup {"tag"}
            [] OTHER -> g_inner

\* reader.read_event_into: the tokenizer consumes the event
read_event_into(ev) ==
  /\ opened' = CASE ev.type = "Start" -> Append(opened, ev.name)
                 [] ev.type = "End" -> SubSeq(opened, 1, Len(opened) - 1)
                 [] OTHER -> opened
  /\ position' = IF ev.type \in {"Eof", "Err"} THEN position ELSE position + 1
  /\ Observe(ev)
  /\ ObserveBody(ev)

\* ---------------------------------------------- parse_and_write_changesets
Return(r) == pc' = "returned" /\ result' = Some(r)

\* The closure process_changeset; wok: whether writer.write succeeds
process_changeset(cs, wok) ==
  LET appended == append(builders, cs)
      fb == finish_batch(appended)
  IN /\ last_changeset_id' = cs.id
     /\ count' = count + 1
     /\ assembled' = Append(assembled, cs)
     /\ IF is_full(appended)
        THEN /\ batch_num' = batch_num + 1
             /\ builders' = fb.builders
             /\ log' = Append(log, [batch_num |-> batch_num + 1,
                                    rows |-> num_rows(fb.batch),
                                    total |-> count + 1])
             /\ IF wok
                THEN written' = Append(written, fb.batch) /\ pc' = "top"
                     /\ result' = result
                ELSE written' = written /\ Return(Err("sink"))
        ELSE /\ builders' = appended
             /\ UNCHANGED <<batch_num, written, log, result>>
             /\ pc' = "top"

final_flush_skip(wok) ==
  /\ Return(Ok(count))
  /\ UNCHANGED <<batch_num, builders, written, log, count, last_changeset_id, assembled>>

\* After the loop: "Process remaining changesets", then Ok(count)
final_flush(wok) ==
  LET fb == finish_batch(builders) IN
  /\ IF ~is_empty(builders)
     THEN /\ batch_num' = batch_num + 1
          /\ builders' = fb.builders
          /\ log' = Append(log, [batch_num |-> batch_num + 1,
                                 rows |-> num_rows(fb.batch),
                                 total |-> count])
          /\ IF wok
             THEN written' = Append(written, fb.batch) /\ Return(Ok(count))
             ELSE written' = written /\ Return(Err("sink"))
     ELSE /\ UNCHANGED <<batch_num, builders, written, log>>
          /\ Return(Ok(count))
  /\ UNCHANGED <<count, last_changeset_id, assembled>>

TopEmptyChangeset_root_only(ev, wok) ==
  /\ pc = "top" /\ ev.type = "Empty" /\ ev.name = "changeset"
  /\ read_event_into(ev)
  /\ LET r == parse_changeset_element(ev.attrs) IN
     IF opened # <<>>
     THEN UNCHANGED <<pc, result, encountered, driver_vars>>
     ELSE IF r.ok
     THEN process_changeset(r.val, wok) /\ UNCHANGED encountered
     ELSE Return(r) /\ encountered' = r.err /\ UNCHANGED driver_vars
  /\ UNCHANGED <<changeset, skip_vars, closes, report, main_result>>
  /\ UNCHANGED <<args_vars, decode_vars>>

\* Ok(Event::Empty(e)) if e.name() == b"changeset"
TopEmptyChangeset(ev, wok) ==
  /\ pc = "top" /\ ev.type = "Empty" /\ ev.name = "changeset"
  /\ read_event_into(ev)
  /\ LET r == parse_changeset_element(ev.attrs) IN
     IF r.ok
     THEN process_changeset(r.val, wok) /\ UNCHANGED encountered
     ELSE Return(r) /\ encountered' = r.err /\ UNCHANGED driver_vars
  /\ UNCHANGED <<changeset, skip_vars, closes, report, main_result>>
  /\ UNCHANGED <<args_vars, decode_vars>>

\* Ok(Event::Start(e)) if e.name() == b"changeset": the attributes; the body
\* is read by the steps of parse_changeset_body
TopStartChangeset(ev) ==
  /\ pc = "top" /\ ev.type = "Start" /\ ev.name = "changeset"
  /\ read_event_into(ev)
  /\ LET r == parse_changeset_element(ev.attrs) IN
     IF r.ok
     THEN changeset' = r.val /\ pc' = "body" /\ UNCHANGED <<result, encountered>>
     ELSE Return(r) /\ encountered' = r.err /\ UNCHANGED changeset
  /\ UNCHANGED <<driver_vars, skip_vars, closes, report, main_result>>
  /\ UNCHANGED <<args_vars, decode_vars>>

\* Ok(Event::Eof) => break, then the final flush
TopEof(ev, wok) ==
  /\ pc = "top" /\ ev.type = "Eof"
  /\ read_event_into(ev)
  /\ final_flush(wok)
  /\ UNCHANGED <<changeset, skip_vars, closes, report, main_result, encountered>>
  /\ UNCHANGED <<args_vars, decode_vars>>

TopErr_resume(ev, wok) ==
  /\ pc = "top" /\ ev.type = "Err"
  /\ read_event_into(ev)
  /\ report' = Some([position |-> position, count |-> count,
                     last_changeset_id |-> last_changeset_id,
                     error |-> ev.name])
  /\ encountered' = ev.name
  /\ IF continue_on_error
     THEN UNCHANGED <<pc, result, driver_vars>>
     ELSE Return(Err(ev.name)) /\ UNCHANGED driver_vars
  /\ UNCHANGED <<changeset, skip_vars, closes, main_result>>
  /\ UNCHANGED <<args_vars, decode_vars>>

\* Err(e): the report, then break (and the final flush) or return Err
TopErr(ev, wok) ==
  /\ pc = "top" /\ ev.type = "Err"
  /\ read_event_into(ev)
  /\ report' = Some([position |-> position, count |-> count,
                     last_changeset_id |-> last_changeset_id,
                     error |-> ev.name])
  /\ encountered' = ev.name
  /\ IF continue_on_error
     THEN final_flush(wok)
     ELSE Return(Err(ev.name)) /\ UNCHANGED driver_vars
  /\ UNCHANGED <<changeset, skip_vars, closes, main_result>>
  /\ UNCHANGED <<args_vars, decode_vars>>

TopOther_counted(ev) ==
  /\ pc = "top"
  /\ ev.type \notin {"Eof", "Err"}
  /\ ~(ev.type \in {"Start", "Empty"} /\ ev.name = "changeset")
  /\ read_event_into(ev)
  /\ count' = count + 1
  /\ UNCHANGED <<builders, batch_num, last_changeset_id, written, log, assembled>>
  /\ UNCHANGED <<pc, changeset, skip_vars, closes, report, result>>
  /\ UNCHANGED <<main_result, encountered, args_vars, decode_vars>>

\* _ => {}
TopOther(ev) ==
  /\ pc = "top"
  /\ ev.type \notin {"Eof", "Err"}
  /\ ~(ev.type \in {"Start", "Empty"} /\ ev.name = "changeset")
  /\ read_event_into(ev)
  /\ UNCHANGED <<pc, changeset, driver_vars, skip_vars, closes, report, result>>
  /\ UNCHANGED <<main_result, encountered, args_vars, decode_vars>>

\* ---------------------------------------------------- parse_changeset_body
\* Ok(Event::Empty(e)): a tag is applied, anything else is passed over
BodyEmpty(ev) ==
  /\ pc = "body" /\ ev.type = "Empty"
  /\ read_event_into(ev)
  /\ LET r == IF ev.name = "tag" THEN apply_changeset_tag(ev.attrs, changeset)
              ELSE Ok(changeset) IN
     IF r.ok
     THEN changeset' = r.val /\ UNCHANGED <<pc, result, encountered>>
     ELSE Return(r) /\ encountered' = r.err /\ UNCHANGED changeset
  /\ UNCHANGED <<driver_vars, skip_vars, closes, report, main_result>>
  /\ UNCHANGED <<args_vars, decode_vars>>

\* Ok(Event::Start(e)): a tag is applied; then read_to_end_into(name) starts
BodyStart(ev) ==
  /\ pc = "body" /\ ev.type = "Start"
  /\ read_event_into(ev)
  /\ LET r == IF ev.name = "tag" THEN apply_changeset_tag(ev.attrs, changeset)
              ELSE Ok(changeset) IN
     IF r.ok
     THEN /\ changeset' = r.val
          /\ pc' = "skip" /\ end_name' = ev.name /\ depth' = 0
          /\ UNCHANGED <<result, encountered>>
     ELSE Return(r) /\ encountered' = r.err /\ UNCHANGED <<changeset, skip_vars>>
  /\ UNCHANGED <<driver_vars, closes, report, main_result>>
  /\ UNCHANGED <<args_vars, decode_vars>>

\* Ok(Event::End(e)) if e.name() == b"changeset" => break; the driver then
\* calls process_changeset
BodyEnd(ev, wok) ==
  /\ pc = "body" /\ ev.type = "End" /\ ev.name = "changeset"
  /\ read_event_into(ev)
  /\ process_changeset(changeset, wok)
  /\ changeset' = ChangesetDefault
  /\ UNCHANGED <<skip_vars, closes, report, main_result, encountered>>
  /\ UNCHANGED <<args_vars, decode_vars>>

BodyEof_keeps_partial(ev) ==
  /\ pc = "body" /\ ev.type = "Eof"
  /\ read_event_into(ev)
  /\ Return(Err("eof")) /\ encountered' = "eof"
  /\ builders' = append(builders, changeset)
  /\ count' = count + 1
  /\ UNCHANGED <<batch_num, last_changeset_id, written, log, assembled>>
  /\ UNCHANGED <<changeset, skip_vars, closes, report, main_result>>
  /\ UNCHANGED <<args_vars, decode_vars>>

\* Ok(Event::Eof) => Err("Unexpected EOF while parsing changeset body")
BodyEof(ev) ==
  /\ pc = "body" /\ ev.type = "Eof"
  /\ read_event_into(ev)
  /\ Return(Err("eof")) /\ encountered' = "eof"
  /\ UNCHANGED <<changeset, driver_vars, skip_vars, closes, report, main_result>>
  /\ UNCHANGED <<args_vars, decode_vars>>

\* Err(err) => return Err(err.into())
BodyErr(ev) ==
  /\ pc = "body" /\ ev.type = "Err"
  /\ read_event_into(ev)
  /\ Return(Err(ev.name)) /\ encountered' = ev.name
  /\ UNCHANGED <<changeset, driver_vars, skip_vars, closes, report, main_result>>
  /\ UNCHANGED <<args_vars, decode_vars>>

\* Ok(_) => {}
BodyOther(ev) ==
  /\ pc = "body"
  /\ \/ ev.type = "Text"
     \/ ev.type = "End" /\ ev.name # "changeset"
  /\ read_event_into(ev)
  /\ UNCHANGED <<pc, changeset, driver_vars, skip_vars, closes, report, result>>
  /\ UNCHANGED <<main_result, encountered, args_vars, decode_vars>>

\* ------------------------------------- reader.read_to_end_into(end_name)
SkipStart_uncounted(ev) ==
  /\ pc = "skip" /\ ev.type = "Start" /\ ev.name = end_name
  /\ read_event_into(ev)
  /\ UNCHANGED <<pc, changeset, driver_vars, skip_vars, closes, report, result>>
  /\ UNCHANGED <<main_result, encountered, args_vars, decode_vars>>

\* Ok(Event::Start(e)) if e.name() == end => depth += 1
SkipStart(ev) ==
  /\ pc = "skip" /\ ev.type = "Start" /\ ev.name = end_name
  /\ read_event_into(ev)
  /\ depth' = depth + 1
  /\ UNCHANGED <<pc, changeset, driver_vars, end_name, closes, report, result>>
  /\ UNCHANGED <<main_result, encountered, args_vars, decode_vars>>

\* Ok(Event::End(e)) if e.name() == end: done at depth 0, else depth -= 1
SkipEnd(ev) ==
  /\ pc = "skip" /\ ev.type = "End" /\ ev.name = end_name
  /\ read_event_into(ev)
  /\ IF depth = 0
     THEN pc' = "body" /\ UNCHANGED depth
     ELSE depth' = depth - 1 /\ UNCHANGED pc
  /\ UNCHANGED <<changeset, driver_vars, end_name, closes, report, result>>
  /\ UNCHANGED <<main_result, encountered, args_vars, decode_vars>>

\* Ok(Event::Eof) => Err(missed_end); Err(e) => Err(e)
SkipFail(ev) ==
  /\ pc = "skip" /\ ev.type \in {"Eof", "Err"}
  /\ read_event_into(ev)
  /\ LET e == IF ev.type = "Eof" THEN "missed_end" ELSE ev.name IN
     Return(Err(e)) /\ encountered' = e
  /\ UNCHANGED <<changeset, driver_vars, skip_vars, closes, report, main_result>>
  /\ UNCHANGED <<args_vars, decode_vars>>

\* _ => ()
SkipOther(ev) ==
  /\ pc = "skip"
  /\ ev.type \notin {"Eof", "Err"}
  /\ ~(ev.type \in {"Start", "End"} /\ ev.name = end_name)
  /\ read_event_into(ev)
  /\ UNCHANGED <<pc, changeset, driver_vars, skip_vars, closes, report, result>>
  /\ UNCHANGED <<main_result, encountered, args_vars, decode_vars>>

\* ------------------------------------------------------------------ main
\* File::create, ArrowWriter::try_new, File::open: any may fail (the ?s)
MainSetup(ok) ==
  /\ pc = "setup"
  /\ IF ok THEN pc' = "top" /\ UNCHANGED main_result
     ELSE pc' = "exit" /\ main_result' = "err"
  /\ UNCHANGED <<changeset, driver_vars, reader_vars, skip_vars, closes, report>>
  /\ UNCHANGED <<result, encountered, args_vars, decode_vars>>

MainFinish_close_always(cok) ==
  /\ pc = "returned"
  /\ pc' = "exit"
  /\ closes' = closes + 1
  /\ main_result' = IF result[1].ok /\ cok THEN "ok" ELSE "err"
  /\ UNCHANGED <<changeset, driver_vars, reader_vars, skip_vars, report>>
  /\ UNCHANGED <<result, encountered, args_vars, decode_vars>>

\* parse_and_write_changesets(..)?; writer.close()?; Ok(())
MainFinish(cok) ==
  /\ pc = "returned"
  /\ pc' = "exit"
  /\ IF result[1].ok
     THEN closes' = closes + 1 /\ main_result' = IF cok THEN "ok" ELSE "err"
     ELSE main_result' = "err" /\ UNCHANGED closes
  /\ UNCHANGED <<changeset, driver_vars, reader_vars, skip_vars, report>>
  /\ UNCHANGED <<result, encountered, args_vars, decode_vars>>

Next ==
  \/ \E ok \in BOOLEAN : MainSetup(ok)
  \/ \E ev \in Offered, wok \in BOOLEAN : TopEmptyChangeset(Delivered(ev), wok)
  \/ \E ev \in Offered : TopStartChangeset(Delivered(ev))
  \/ \E ev \in Offered, wok \in BOOLEAN : TopEof(Delivered(ev), wok)
  \/ \E ev \in Offered, wok \in BOOLEAN : TopErr(Delivered(ev), wok)
  \/ \E ev \in Offered : TopOther(Delivered(ev))
  \/ \E ev \in Offered : BodyEmpty(Delivered(ev))
  \/ \E ev \in Offered : BodyStart(Delivered(ev))
  \/ \E ev \in Offered, wok \in BOOLEAN : BodyEnd(Delivered(ev), wok)
  \/ \E ev \in Offered : BodyEof(Delivered(ev))
  \/ \E ev \in Offered : BodyErr(Delivered(ev))
  \/ \E ev \in Offered : BodyOther(Delivered(ev))
  \/ \E ev \in Offered : SkipStart(Delivered(ev))
  \/ \E ev \in Offered : SkipEnd(Delivered(ev))
  \/ \E ev \in Offered : SkipFail(Delivered(ev))
  \/ \E ev \in Offered : SkipOther(Delivered(ev))
  \/ \E cok \in BOOLEAN : MainFinish(cok)

Spec == Init /\ [][Next]_vars

\* ------------------------------------------------ decoding specification
\* parse_changeset_element and append on one element, whose attributes are
\* drawn from every list of at most MaxAttrs attributes
DecodeRaws ==
  {"0", "true", "TRUE", "abc", "1970-01-01T00:00:00Z", "&bogus;", "-1"}
DecodeKeys == RecognizedKeys \cup {"version"}
DecodeAttrs ==
  {Attr(k, r) : k \in DecodeKeys, r \in DecodeRaws} \cup {Attr(MalformedKey, "")}
AttrLists == UNION {[1..n -> DecodeAttrs] : n \in 0..MaxAttrs}

InitDecode ==
  /\ pc = "decode"
  /\ continue_on_error = FALSE
  /\ batch_size = 1
  /\ elem \in AttrLists
  /\ InitRun

DecodeElement ==
  /\ pc = "decode"
  /\ decoded' = parse_changeset_element(elem)
  /\ pc' = "decoded"
  /\ UNCHANGED <<changeset, driver_vars, reader_vars, skip_vars, closes, report>>
  /\ UNCHANGED <<result, main_result, encountered, args_vars, elem>>

AppendDecoded ==
  /\ pc = "decoded" /\ decoded.ok
  /\ builders' = append(builders, decoded.val)
  /\ pc' = "appended"
  /\ UNCHANGED <<count, batch_num, last_changeset_id, written, log, assembled>>
  /\ UNCHANGED <<changeset, reader_vars, skip_vars, closes, report, result>>
  /\ UNCHANGED <<main_result, encountered, args_vars, decode_vars>>

NextDecode == DecodeElement \/ AppendDecoded

SpecDecode == InitDecode /\ [][NextDecode]_vars

\* ---------------------------------------------------------- definitions
\* used by the properties below
Threshold == IF batch_size >= 1 THEN batch_size ELSE 1
Returned == result # None
ReturnedOk == result # None /\ result[1].ok
ReturnedErr == result # None /\ ~result[1].ok
SinkFailed == result = Some(Err("sink"))

RECURSIVE SumRows(_)
SumRows(bs) == IF bs = <<>> THEN 0 ELSE num_rows(Head(bs)) + SumRows(Tail(bs))

BatchRows(batch) == [i \in 1..num_rows(batch) |-> Row(batch, i)]
RECURSIVE WrittenRows(_)
WrittenRows(bs) ==
  IF bs = <<>> THEN <<>> ELSE BatchRows(Head(bs)) \o WrittenRows(Tail(bs))

\* The row a record is expected to give: a null for every absent option
ExpectedSlot(o, d) == IF o = None THEN [valid |-> FALSE, v |-> d]
                      ELSE [valid |-> TRUE, v |-> o[1]]
ExpectedRow(cs) ==
  [id |-> [valid |-> TRUE, v |-> cs.id],
   created_at |-> ExpectedSlot(cs.created_at, 0),
   closed_at |-> ExpectedSlot(cs.closed_at, 0),
   open |-> [valid |-> TRUE, v |-> cs.open],
   user |-> ExpectedSlot(cs.user, ""),
   uid |-> ExpectedSlot(cs.uid, 0),
   min_lat |-> ExpectedSlot(cs.min_lat, 0),
   min_lon |-> ExpectedSlot(cs.min_lon, 0),
   max_lat |-> ExpectedSlot(cs.max_lat, 0),
   max_lon |-> ExpectedSlot(cs.max_lon, 0),
   num_changes |-> [valid |-> TRUE, v |-> cs.num_changes],
   comments_count |-> [valid |-> TRUE, v |-> cs.comments_count],
   description |-> ExpectedSlot(cs.description, "")]

RowCounts == [i \in 1..Len(written) |-> num_rows(written[i])]
LastId == IF assembled = <<>> THEN 0 ELSE assembled[Len(assembled)].id
DecodeKinds == {"timestamp", "parse_int", "parse_float", "attr", "escape"}
BodyKinds == {"eof", "missed_end"}

TypeOK == pc \in {"setup", "top", "body", "skip", "returned", "exit"}

\* ------------------------------------------------------------ properties
\* C1: when the driver returns Ok for an input with no malformed record and
\* no tokenizer error, the rows of all written batches number the well-formed
\* changeset records of the input, and so does the returned count.
C1_RowsEqualRecords ==
  (ReturnedOk /\ ~invalid) =>
    (SumRows(written) = wf /\ result[1].val = wf)

C1_Witness ==
  /\ ReturnedOk /\ ~invalid /\ wf >= 3 /\ Len(written) >= 2
  /\ \E i \in 1..Len(assembled) : assembled[i].description # None

\* C2: in best-effort mode a decode or structural error on a record still
\* ends in a final batch holding every record assembled before it, and the
\* run returns success.
C2_BestEffortPartialSuccess ==
  (continue_on_error /\ Returned /\ ~SinkFailed
     /\ encountered \in DecodeKinds \cup BodyKinds \cup {"syntax"}) =>
    (result[1].ok /\ SumRows(written) = Len(assembled))

\* C3 as stated: in both modes, when the run stops the rows of all flushed
\* batches number the records assembled before the stopping point.
C3_FlushedEqualsAssembled ==
  (Returned /\ ~SinkFailed) => SumRows(written) = Len(assembled)

\* C3 amended: a run that returns success has flushed exactly the records
\* assembled; a run that returns failure for a parse error has flushed the
\* records assembled except those still buffered, which stay unflushed.
C3_FlushedEqualsAssembledOnSuccess ==
  /\ ReturnedOk =>
       (SumRows(written) = Len(assembled) /\ result[1].val = Len(assembled)
          /\ is_empty(builders))
  /\ (ReturnedErr /\ ~SinkFailed) =>
       (SumRows(written) = Len(assembled) - builders.len
          /\ builders.len = Len(assembled) % Threshold)

C3_Witness ==
  /\ ReturnedErr /\ ~SinkFailed /\ builders.len >= 1 /\ Len(written) >= 1

\* C4: in strict mode a malformed timestamp makes the run fail, and the
\* batches written are exactly the full batches reached before it (none if
\* it is in the first record); nothing is written afterwards.
C4_StrictTimestampHalts ==
  (~continue_on_error /\ encountered = "timestamp") =>
    /\ result = Some(Err("timestamp"))
    /\ pc = "exit" => main_result = "err"
    /\ Len(written) = Len(assembled) \div Threshold
    /\ \A i \in 1..Len(written) : num_rows(written[i]) = Threshold
    /\ WrittenRows(written) =
         [i \in 1..(Threshold * Len(written)) |-> ExpectedRow(assembled[i])]
    /\ builders.len = Len(assembled) % Threshold

C4_Witness ==
  /\ ~continue_on_error /\ encountered = "timestamp" /\ pc = "exit"
  /\ Len(written) >= 1 /\ builders.len >= 1

\* C5: every batch flushed has between 1 and max(batch_size, 1) rows, every
\* one but the last exactly max(batch_size, 1); no flush of an empty
\* accumulator; 5 records with batch_size 2 give batches of 2, 2, 1 rows;
\* batch_size 0 gives batches of one row, as batch_size 1 does.
C5_BatchSizes ==
  /\ \A i \in 1..Len(log) :
       /\ log[i].rows >= 1 /\ log[i].rows <= Threshold
       /\ i < Len(log) => log[i].rows = Threshold
  /\ \A i \in 1..Len(written) : num_rows(written[i]) = log[i].rows
  /\ Len(written) \in {Len(log), Len(log) - 1}
  /\ (batch_size = 2 /\ ReturnedOk /\ Len(assembled) = 5) =>
       RowCounts = <<2, 2, 1>>
  /\ batch_size = 0 => \A i \in 1..Len(written) : num_rows(written[i]) = 1

C5_Witness ==
  batch_size = 2 /\ ReturnedOk /\ Len(assembled) = 5 /\ RowCounts = <<2, 2, 1>>

\* C6: a failure of the byte source while reading an event makes the run
\* return failure in both modes.
C6_IoErrorFatal ==
  (Returned /\ encountered = "io") => ~result[1].ok

\* C7: writer.close is called only after the driver returned success, at
\* most once and exactly once when main is through with a successful run,
\* never after a failed run, and no batch is written after it.
C7_CloseOnceAfterSuccess ==
  /\ [](/\ closes \in {0, 1}
        /\ closes = 1 => (ReturnedOk /\ pc = "exit")
        /\ (pc = "exit" /\ ReturnedOk) => closes = 1
        /\ (pc = "exit" /\ ~ReturnedOk) => (closes = 0 /\ main_result = "err"))
  /\ [][closes >= 1 => (written' = written /\ log' = log)]_vars

C7_Witness ==
  closes = 1 /\ Len(written) >= 2 /\ main_result = "ok"

\* C8 as stated: every field whose attribute is absent from the element is a
\* no-value marker (a null) in the appended row, never a scalar such as 0.
Present(attrs, f) == \E i \in 1..Len(attrs) : attrs[i].key = f
AttributeFields == RecognizedKeys
OptionalFields ==
  {"created_at", "closed_at", "user", "uid", "min_lat", "min_lon", "max_lat",
   "max_lon"}
RequiredFields == {"id", "open", "num_changes", "comments_count"}

C8_AbsentIsNoValue ==
  pc = "appended" =>
    \A f \in AttributeFields : ~Present(elem, f) => ~builders[f][1].valid

\* C8 amended: every optional field (created_at, closed_at, user, uid,
\* min_lat, min_lon, max_lat, max_lon, description) whose source is absent is
\* None in the record and a null in the appended row, and is not None and not
\* a null when the attribute is present, whatever its value; the required
\* fields id, open, num_changes, comments_count are never null and are 0 or
\* false when the attribute is absent.
C8_AbsentOptionalIsNoValue ==
  /\ (pc \in {"decoded", "appended"} /\ decoded.ok) =>
       /\ \A f \in OptionalFields :
            /\ Present(elem, f) <=> decoded.val[f] # None
            /\ ~Present(elem, f) =>
                 \A r \in DecodeRaws :
                   LET more == parse_changeset_element(Append(elem, Attr(f, r)))
                   IN more.ok => (more.val[f] # None /\ more.val # decoded.val)
       /\ decoded.val.description = None
       /\ ~Present(elem, "id") => decoded.val.id = 0
       /\ ~Present(elem, "open") => decoded.val.open = FALSE
       /\ ~Present(elem, "num_changes") => decoded.val.num_changes = 0
       /\ ~Present(elem, "comments_count") => decoded.val.comments_count = 0
  /\ pc = "appended" =>
       /\ builders.len = 1
       /\ \A f \in OptionalFields : Present(elem, f) <=> builders[f][1].valid
       /\ ~builders.description[1].valid
       /\ \A f \in RequiredFields : builders[f][1].valid
       /\ Row(builders, 1) = ExpectedRow(decoded.val)

C8_Witness ==
  /\ pc = "appended"
  /\ Present(elem, "uid") /\ ~Present(elem, "min_lat")
  /\ builders.uid[1] = [valid |-> TRUE, v |-> 0]
  /\ builders.min_lat[1] = [valid |-> FALSE, v |-> 0]

\* C9: the rows of the written batches, batch after batch, are the records
\* assembled, in input order, up to the last row written: none reordered,
\* duplicated or dropped.
C9_ArrivalOrder ==
  /\ SumRows(written) <= Len(assembled)
  /\ WrittenRows(written) =
       [i \in 1..SumRows(written) |-> ExpectedRow(assembled[i])]
  /\ \A i \in 1..Len(written) : log[i].batch_num = i

C9_Witness ==
  /\ Len(written) >= 2 /\ SumRows(written) >= 3
  /\ \E i, j \in 1..Len(assembled) : assembled[i] # assembled[j]

\* C10: every error that ends or interrupts the run is reported with the
\* stream position, the identifier of the last record assembled, the error
\* and the number of records parsed so far.
C10_DiagnosticTriple ==
  (Returned /\ encountered # "none") =>
    /\ report # None
    /\ report[1].error = encountered
    /\ report[1].count = Len(assembled)
    /\ report[1].last_changeset_id = LastId

\* C11: the description of an assembled record is the comment of the last
\* tag element directly inside it (self-closing or not) that has k = "comment"
\* and a v; a later one overrides an earlier one, other tags and tags below
\* other children leave it alone, and it is None when there is none.
C11_DescriptionIsLastComment ==
  /\ []((~invalid /\ pc \in {"body", "skip"}) => changeset.description = g_desc)
  /\ [][(Len(assembled') > Len(assembled) /\ ~invalid') =>
          assembled'[Len(assembled')].description = g_desc]_vars

C11_Witness ==
  /\ ~invalid /\ pc = "top" /\ position >= 5
  /\ \E i \in 1..Len(assembled) : assembled[i].description = Some("final edit")
  /\ \E i \in 1..Len(assembled) : assembled[i].description = None

\* C12: an element with attributes of unrecognized names decodes to the same
\* result as the element without them, and such an attribute never makes the
\* decoding fail, whatever its value.
IsRecognized(a) == a.key \in RecognizedKeys \cup {MalformedKey}
WithoutUnrecognized(attrs) == SelectSeq(attrs, IsRecognized)

C12_UnknownAttributesIgnored ==
  pc \in {"decoded", "appended"} =>
    LET bare == parse_changeset_element(WithoutUnrecognized(elem)) IN
    /\ decoded.ok = bare.ok
    /\ decoded.ok => decoded.val = bare.val

\* C13: open is true exactly when the open attribute is there with the value
\* "true"; every other value and no attribute give false, and the value of
\* open never makes the decoding fail: the element decodes or fails as it
\* does with open = "true", and to the same record up to the open field.
\* A value is the text after unescape_value; a text with an entity that does
\* not resolve has none.
HasOpenTrue(attrs) ==
  \E i \in 1..Len(attrs) :
    attrs[i].key = "open" /\ unescape_value(attrs[i].raw) = Ok("true")
OpenValuesUnescape(attrs) ==
  \A i \in 1..Len(attrs) :
    attrs[i].key = "open" => unescape_value(attrs[i].raw).ok
WithOpenTrue(attrs) ==
  [i \in 1..Len(attrs) |->
     IF attrs[i].key = "open" THEN Attr("open", "true") ELSE attrs[i]]

\* C13 as stated: whatever the text of the open attribute, the element
\* decodes or fails as it does with open = "true".
C13_OpenNeverFails ==
  pc \in {"decoded", "appended"} =>
    decoded.ok = parse_changeset_element(WithOpenTrue(elem)).ok

\* C13, amended to the values that unescape.
C13_OpenOnlyLiteralTrue ==
  /\ (pc \in {"decoded", "appended"} /\ decoded.ok) =>
       (decoded.val.open <=> HasOpenTrue(elem))
  /\ (pc \in {"decoded", "appended"} /\ OpenValuesUnescape(elem)) =>
       LET same == parse_changeset_element(WithOpenTrue(elem)) IN
       /\ decoded.ok = same.ok
       /\ decoded.ok =>
            [decoded.val EXCEPT !.open = TRUE] = [same.val EXCEPT !.open = TRUE]
  /\ pc = "appended" =>
       builders.open[1] = [valid |-> TRUE, v |-> HasOpenTrue(elem)]

C13_Witness ==
  /\ pc = "appended"
  /\ \E i \in 1..Len(elem) : elem[i].key = "open" /\ elem[i].raw = "TRUE"
  /\ builders.open[1] = [valid |-> TRUE, v |-> FALSE]

\* C14: a record whose assembly fails is never appended and never counted.
\* The count is the number of assembled records, the rows buffered and
\* written are rows of assembled records, and the step on which an error is
\* met inside a record changes neither the accumulator, the count nor the
\* batches written, in either mode.
C14_FailedRecordNeverAppended ==
  /\ [](/\ count = Len(assembled)
        /\ SumRows(written) + builders.len <= Len(assembled)
        /\ \A i \in 1..SumRows(written) :
             WrittenRows(written)[i] = ExpectedRow(assembled[i]))
  /\ [][(/\ encountered = "none" /\ encountered' # "none"
          /\ (pc \in {"body", "skip"} \/ encountered' \in DecodeKinds)) =>
          /\ UNCHANGED <<builders, count, assembled, written, batch_num>>
          /\ pc' = "returned" /\ ReturnedErr']_vars

C14_Witness ==
  /\ encountered \in BodyKinds /\ pc = "returned" /\ ReturnedErr
  /\ changeset.description # None
  /\ Len(assembled) = 1 /\ written = <<>> /\ builders.len = 1

\* C15: for input without tokenizer error or malformed record, the position
\* of the assembler agrees with a stack of the elements open: at the top
\* level exactly when no record is open, in a record's body exactly when the
\* record is the innermost element open, skipping exactly when a child is
\* open, with the name and the depth of the skip those of the child; and the
\* records assembled are the records the stream holds.
SameNameAbove(n) ==
  Cardinality({i \in (n + 1)..Len(opened) : opened[i] = opened[n]})

C15_SkipKeepsSync ==
  (~invalid /\ pc \in {"top", "body", "skip"}) =>
    /\ pc = "top" <=> g_depth = 0
    /\ pc = "body" <=> (g_depth # 0 /\ Len(opened) = g_depth)
    /\ pc = "skip" <=> (g_depth # 0 /\ Len(opened) > g_depth)
    /\ pc = "skip" =>
         /\ end_name = opened[g_depth + 1]
         /\ depth = SameNameAbove(g_depth + 1)
    /\ Len(assembled) = wf

C15_Witness ==
  /\ ~invalid /\ pc = "top" /\ Len(opened) = 0
  /\ g_inner = {"changeset", "tag"}
  /\ Len(assembled) = 1 /\ assembled[1].description = None

\* C16: once an error is met no further event is read, in either mode: the
\* loop is left, and the input position, the records assembled and the
\* accumulator's rows from records stay as they are but for the final flush.
C16_NoReadAfterError ==
  /\ [](encountered # "none" => pc \in {"returned", "exit"})
  /\ [][encountered # "none" =>
          UNCHANGED <<position, opened, assembled, count, last_changeset_id>>]_vars
  /\ [][(encountered = "none" /\ encountered' # "none") =>
          /\ assembled' = assembled /\ count' = count
          /\ Len(written') <= Len(written) + 1
          /\ SumRows(written') + builders'.len <= SumRows(written) + builders.len]_vars

C16_Witness ==
  /\ encountered = "syntax" /\ continue_on_error /\ ReturnedOk
  /\ pc = "exit" /\ Len(written) = 2 /\ count = 3 /\ builders.len = 0

\* C17: the accumulator never holds more rows than the effective batch size,
\* every column holds as many values as the accumulator has rows, and the
\* accumulator is below the threshold whenever the next event is to be read.
C17_BufferBounded ==
  /\ builders.len <= Threshold
  /\ \A c \in Columns : Len(builders[c]) = builders.len
  /\ pc \in {"top", "body", "skip"} => builders.len < Threshold

C17_Witness ==
  /\ pc = "top" /\ batch_size = 2 /\ builders.len = 1
  /\ Len(written) = 1 /\ count = 3

\* C18: a top-level event that is neither a changeset element, the end of
\* input nor an error is ignored: the loop goes on and the accumulator, the
\* count, the batch count, the last identifier, the batches written, the
\* progress lines and the error state are unchanged.
NonRecordEvent(ev) ==
  /\ ev.type \notin {"Eof", "Err"}
  /\ ~(ev.type \in {"Start", "Empty"} /\ ev.name = "changeset")

C18_OtherTopLevelIgnored ==
  [][(/\ pc = "top"
      /\ \E ev \in Offered : /\ NonRecordEvent(Delivered(ev))
                             /\ read_event_into(Delivered(ev))
      /\ ~\E ev \in Offered : /\ ~NonRecordEvent(Delivered(ev))
                              /\ read_event_into(Delivered(ev))) =>
       /\ pc' = "top"
       /\ UNCHANGED <<builders, count, batch_num, last_changeset_id, written,
                      log, assembled, report, result, encountered>>]_vars

C18_Witness ==
  /\ pc = "top" /\ ~invalid /\ encountered = "none"
  /\ opened = <<"discussion">> /\ position = 2
  /\ builders.len = 1 /\ Len(assembled) = 1 /\ last_changeset_id = 1

\* C19: between two top-level events (and inside a record) the count is the
\* rows written plus the rows buffered, and the batch counter is the number
\* of batches written and of progress lines.
C19_RunStateInvariant ==
  pc \in {"top", "body", "skip"} =>
    /\ count = SumRows(written) + builders.len
    /\ batch_num = Len(written)
    /\ Len(log) = batch_num

C19_Witness ==
  /\ pc = "top" /\ count = 3 /\ batch_num = 1
  /\ SumRows(written) = 2 /\ builders.len = 1 /\ opened # <<>>

\* C20: an element named changeset is dispatched as a record exactly when no
\* record is open, whatever the number of other elements open around it: a
\* self-closing one is assembled on the step that reads it, an opening one
\* starts a body; inside a record's body no element, named changeset or
\* not, is dispatched, appended or counted. Stated against the history of
\* the input (g_depth, wf) for inputs without tokenizer error or malformed
\* record.
C20_NoDepthTracking ==
  [][~invalid' =>
       /\ (wf' = wf + 1) <=> (Len(assembled') = Len(assembled) + 1)
       /\ (wf' = wf) <=> (assembled' = assembled)
       /\ (g_depth = 0 /\ g_depth' # 0) => (pc = "top" /\ pc' = "body")
       /\ (g_depth # 0 /\ g_depth' # 0) =>
            /\ pc \in {"body", "skip"} /\ pc' \in {"body", "skip"}
            /\ UNCHANGED <<builders, count, assembled, written>>]_vars

C20_Witness ==
  /\ pc = "top" /\ ~invalid
  /\ opened = <<"discussion", "discussion">> /\ position = 5
  /\ "changeset" \in g_inner
  /\ wf = 1 /\ Len(assembled) = 1 /\ count = 1 /\ builders.len = 1

====
